---- MODULE Spec2Model ----
(***************************************************************************)
(* Model of main.py of taneishi/ODR: the training / evaluation loop of     *)
(* main(args) and the augmentation step RandomGaussianBlur.__call__.       *)
(*                                                                         *)
(* Abstractions.  A tensor row is a record naming the sample it belongs to *)
(* (split, epoch, id); the parameter set of the network is the number of   *)
(* the optimizer step that produced it (Step(p) = p + 1); loss.item() is   *)
(* one unit per batch; a label vector is the set of its positive classes.  *)
(* The dataset (datasets.ODIR5K) is external: the label vector of a sample *)
(* is an input drawn when the loader fetches the sample.                   *)
(***************************************************************************)
EXTENDS Integers, Sequences, FiniteSets, TLC

\* ---------------------------------------------------------------- bounds
MaxEpochs == 2
MaxBatch  == 2
MaxTrain  == 4
MaxTest   == 2
\* np.random.rand() is drawn on the grid {0, 1/RandRes, ..., (RandRes-1)/RandRes}
RandRes   == 10
MaxPix    == 1
ImgLen    == 2

\* ------------------------------------------------------ program constants
Classes        == 8
CheckpointPath == "model/checkpoint.pth"
KSize          == 23

\* Label vectors the dataset may yield: no class positive, every class positive.
LabelChoices == { {}, 1..Classes }

VARIABLES
  \* args and data sets
  epochs, batch_size, nTrain, nTest,
  \* control
  pc, exc, training, epoch, index, order,
  \* the current batch
  left_images, right_images, labels, left_outputs, right_outputs, outputs, loss,
  \* network and optimizer
  params, grad, optSteps,
  \* accumulators
  y_true, y_pred, train_loss, test_loss,
  \* effects
  writes, summaries, evalPasses, aucEvals, metricCalls, batchLog,
  \* RandomGaussianBlur.__call__
  b_pc, img, arg, do_it, r, sigma, out

mainVars == << epochs, batch_size, nTrain, nTest, pc, exc, training, epoch, index,
               order, left_images, right_images, labels, left_outputs, right_outputs,
               outputs, loss, params, grad, optSteps, y_true, y_pred, train_loss,
               test_loss, writes, summaries, evalPasses, aucEvals, metricCalls,
               batchLog >>
blurVars == << b_pc, img, arg, do_it, r, sigma, out >>
vars     == << mainVars, blurVars >>

\* ---------------------------------------------------------------- helpers
Min(a, b) == IF a < b THEN a ELSE b

\* RandomSampler: one permutation of the data set per iteration of the loader.
Perms(n) == Permutations(1..n)

\* SequentialSampler (shuffle=False).
Sequential(n) == [i \in 1..n |-> i]

\* HasNext, yielding one batch too many when the size divides evenly.
HasNext_OffByOne(k, n, B) == k * B <= n

\* The loader yields a batch while samples remain (drop_last is False).
HasNext(k, n, B) == k * B < n

\* Sample ids of batch k (1-based) of size B out of n samples in order o.
BatchIds(o, k, n, B) == SubSeq(o, (k - 1) * B + 1, Min(k * B, n))

\* len(loader): the number of batches.
NumBatches(n, B) == (n + B - 1) \div B

\* optimizer.step(): the parameters after a step from parameters p.
Step(p) == p + 1

\* roc_auc_score raises for a class column holding a single value; indexing
\* y_true[:, i] raises for the empty 1-d accumulator.
AUCRaises(yt) ==
  \/ yt = << >>
  \/ \E c \in 1..Classes :
        \/ \A i \in 1..Len(yt) : c \in yt[i].y
        \/ \A i \in 1..Len(yt) : c \notin yt[i].y

NoImage == [obj |-> 0, kind |-> "none", pixels |-> << >>,
            blur |-> [ksize |-> << 0, 0 >>, sigma |-> 0]]

\* ------------------------------------------------------------------ Init
BlurIdle ==
  /\ b_pc = "idle" /\ img = NoImage /\ arg = NoImage
  /\ do_it = FALSE /\ r = 0 /\ sigma = 0 /\ out = NoImage

\* The state of main(args) at line 78, before net.train().  The size of the
\* test set is not read before the test loader is iterated (line 118).
MainZero ==
  /\ nTest = 0
  /\ pc = "start" /\ exc = "none" /\ training = FALSE
  /\ epoch = 0 /\ index = 0 /\ order = << >>
  /\ left_images = << >> /\ right_images = << >> /\ labels = << >>
  /\ left_outputs = << >> /\ right_outputs = << >> /\ outputs = << >>
  /\ loss = 0
  /\ params = 0 /\ grad = {} /\ optSteps = 0
  /\ y_true = << >> /\ y_pred = << >> /\ train_loss = 0 /\ test_loss = 0
  /\ writes = << >> /\ summaries = << >>
  /\ evalPasses = 0 /\ aucEvals = 0 /\ metricCalls = 0 /\ batchLog = << >>

\* args.epochs, args.batch_size (lines 146-147) and the size of the train set.
MainInit ==
  /\ epochs \in 0..MaxEpochs
  /\ batch_size \in 1..MaxBatch
  /\ nTrain \in 1..MaxTrain
  /\ MainZero

Init == MainInit /\ BlurIdle

\* ------------------------------------------------------- rows of a batch
\* The image rows and the label rows of the batch with sample ids `ids` of
\* split s in epoch e; ys[i] is the label vector of the i-th sample.
ImageRows(s, e, ids, eye) ==
  [i \in 1..Len(ids) |-> [split |-> s, epoch |-> e, id |-> ids[i], eye |-> eye]]

LabelRows(s, e, ids, ys) ==
  [i \in 1..Len(ids) |-> [split |-> s, epoch |-> e, id |-> ids[i], y |-> ys[i]]]

\* net(images): one output row per image row, computed with parameters p.
Forward(images, p) ==
  [i \in 1..Len(images) |->
     [split |-> images[i].split, epoch |-> images[i].epoch, id |-> images[i].id,
      eye |-> images[i].eye, params |-> p]]

\* (left_outputs + right_outputs) / 2, row by row.
Average(lo, ro) ==
  [i \in 1..Len(lo) |->
     [split |-> lo[i].split, epoch |-> lo[i].epoch,
      left |-> lo[i].id, right |-> ro[i].id,
      paramsL |-> lo[i].params, paramsR |-> ro[i].params]]

\* outputs.detach().cpu(): the same rows, cut from the graph.
Detach(o) == o

\* The names bound by the batch loop are not read again before the next
\* fetch rebinds them: the model forgets their values once the batch is done.
BatchDead ==
  /\ left_images' = << >> /\ right_images' = << >> /\ labels' = << >>
  /\ left_outputs' = << >> /\ right_outputs' = << >> /\ outputs' = << >>
  /\ loss' = 0

\* ------------------------------------------------------------ training
\* line 78
TrainMode ==
  /\ pc = "start"
  /\ training' = TRUE
  /\ pc' = "epoch_head"
  /\ UNCHANGED << epochs, batch_size, nTrain, nTest, exc, epoch, index, order,
                  left_images, right_images, labels, left_outputs, right_outputs,
                  outputs, loss, params, grad, optSteps, y_true, y_pred, train_loss,
                  test_loss, writes, summaries, evalPasses, aucEvals, metricCalls,
                  batchLog >>
  /\ UNCHANGED blurVars

\* EpochStart, keeping the accumulators of the previous epoch.
EpochStart_NoReset ==
  /\ pc = "epoch_head"
  /\ epoch < epochs
  /\ epoch' = epoch + 1
  /\ UNCHANGED << y_true, y_pred >>
  /\ train_loss' = 0
  /\ index' = 0
  /\ order' \in Perms(nTrain)
  /\ pc' = "train_head"
  /\ UNCHANGED << epochs, batch_size, nTrain, nTest, exc, training,
                  left_images, right_images, labels, left_outputs, right_outputs,
                  outputs, loss, params, grad, optSteps, test_loss, writes,
                  summaries, evalPasses, aucEvals, metricCalls, batchLog >>
  /\ UNCHANGED blurVars

\* lines 79-84: the next epoch begins; accumulators and loss sum are fresh
\* objects and the loader's sampler draws a new permutation.
EpochStart ==
  /\ pc = "epoch_head"
  /\ epoch < epochs
  /\ epoch' = epoch + 1
  /\ y_true' = << >>
  /\ y_pred' = << >>
  /\ train_loss' = 0
  /\ index' = 0
  /\ order' \in Perms(nTrain)
  /\ pc' = "train_head"
  /\ UNCHANGED << epochs, batch_size, nTrain, nTest, exc, training,
                  left_images, right_images, labels, left_outputs, right_outputs,
                  outputs, loss, params, grad, optSteps, test_loss, writes,
                  summaries, evalPasses, aucEvals, metricCalls, batchLog >>
  /\ UNCHANGED blurVars

\* lines 84-87: the loader yields the next batch.
TrainFetch ==
  /\ pc = "train_head"
  /\ HasNext(index, nTrain, batch_size)
  /\ index' = index + 1
  /\ LET ids == BatchIds(order, index + 1, nTrain, batch_size) IN
       /\ left_images' = ImageRows("train", epoch, ids, "left")
       /\ right_images' = ImageRows("train", epoch, ids, "right")
       /\ \E ys \in [1..Len(ids) -> LabelChoices] :
            labels' = LabelRows("train", epoch, ids, ys)
  /\ batchLog' = << >>
  /\ pc' = "forward"
  /\ UNCHANGED << epochs, batch_size, nTrain, nTest, exc, training, epoch, order,
                  left_outputs, right_outputs, outputs, loss, params, grad, optSteps,
                  y_true, y_pred, train_loss, test_loss, writes, summaries,
                  evalPasses, aucEvals, metricCalls >>
  /\ UNCHANGED blurVars

\* lines 89-90
TrainForward ==
  /\ pc = "forward"
  /\ left_outputs' = Forward(left_images, params)
  /\ right_outputs' = Forward(right_images, params)
  /\ batchLog' = batchLog \o << "forward_left", "forward_right" >>
  /\ pc' = "average"
  /\ UNCHANGED << epochs, batch_size, nTrain, nTest, exc, training, epoch, index,
                  order, left_images, right_images, labels, outputs, loss, params,
                  grad, optSteps, y_true, y_pred, train_loss, test_loss, writes,
                  summaries, evalPasses, aucEvals, metricCalls >>
  /\ UNCHANGED blurVars

\* line 92
TrainAverage ==
  /\ pc = "average"
  /\ outputs' = Average(left_outputs, right_outputs)
  /\ batchLog' = Append(batchLog, "average")
  /\ pc' = "loss"
  /\ UNCHANGED << epochs, batch_size, nTrain, nTest, exc, training, epoch, index,
                  order, left_images, right_images, labels, left_outputs,
                  right_outputs, loss, params, grad, optSteps, y_true, y_pred,
                  train_loss, test_loss, writes, summaries, evalPasses, aucEvals,
                  metricCalls >>
  /\ UNCHANGED blurVars

\* lines 94-95
TrainLoss ==
  /\ pc = "loss"
  /\ loss' = 1
  /\ train_loss' = train_loss + 1
  /\ batchLog' = Append(batchLog, "loss")
  /\ pc' = "zero_grad"
  /\ UNCHANGED << epochs, batch_size, nTrain, nTest, exc, training, epoch, index,
                  order, left_images, right_images, labels, left_outputs,
                  right_outputs, outputs, params, grad, optSteps, y_true, y_pred,
                  test_loss, writes, summaries, evalPasses, aucEvals, metricCalls >>
  /\ UNCHANGED blurVars

\* line 97
ZeroGrad ==
  /\ pc = "zero_grad"
  /\ grad' = {}
  /\ batchLog' = Append(batchLog, "zero_grad")
  /\ pc' = "backward"
  /\ UNCHANGED << epochs, batch_size, nTrain, nTest, exc, training, epoch, index,
                  order, left_images, right_images, labels, left_outputs,
                  right_outputs, outputs, loss, params, optSteps, y_true, y_pred,
                  train_loss, test_loss, writes, summaries, evalPasses, aucEvals,
                  metricCalls >>
  /\ UNCHANGED blurVars

\* line 98: the gradient of the loss at the parameters the outputs were
\* computed with.
Backward ==
  /\ pc = "backward"
  /\ grad' = { outputs[i].paramsL : i \in 1..Len(outputs) }
  /\ batchLog' = Append(batchLog, "backward")
  /\ pc' = "step"
  /\ UNCHANGED << epochs, batch_size, nTrain, nTest, exc, training, epoch, index,
                  order, left_images, right_images, labels, left_outputs,
                  right_outputs, outputs, loss, params, optSteps, y_true, y_pred,
                  train_loss, test_loss, writes, summaries, evalPasses, aucEvals,
                  metricCalls >>
  /\ UNCHANGED blurVars

\* line 99
OptimizerStep ==
  /\ pc = "step"
  /\ params' = Step(params)
  /\ optSteps' = optSteps + 1
  /\ batchLog' = Append(batchLog, "step")
  /\ pc' = "append"
  /\ UNCHANGED << epochs, batch_size, nTrain, nTest, exc, training, epoch, index,
                  order, left_images, right_images, labels, left_outputs,
                  right_outputs, outputs, loss, grad, y_true, y_pred, train_loss,
                  test_loss, writes, summaries, evalPasses, aucEvals, metricCalls >>
  /\ UNCHANGED blurVars

\* TrainAppend, concatenating the predictions in the other order.
TrainAppend_Prepend ==
  /\ pc = "append"
  /\ y_true' = y_true \o labels
  /\ y_pred' = Detach(outputs) \o y_pred
  /\ batchLog' = Append(batchLog, "append")
  /\ BatchDead
  /\ pc' = "train_head"
  /\ UNCHANGED << epochs, batch_size, nTrain, nTest, exc, training, epoch, index,
                  order, params, grad, optSteps, train_loss, test_loss, writes,
                  summaries, evalPasses, aucEvals, metricCalls >>
  /\ UNCHANGED blurVars

\* TrainAppend, appending outputs recomputed after the optimizer step.
TrainAppend_Recomputed ==
  /\ pc = "append"
  /\ y_true' = y_true \o labels
  /\ y_pred' = y_pred \o Detach(Average(Forward(left_images, params),
                                            Forward(right_images, params)))
  /\ batchLog' = Append(batchLog, "append")
  /\ BatchDead
  /\ pc' = "train_head"
  /\ UNCHANGED << epochs, batch_size, nTrain, nTest, exc, training, epoch, index,
                  order, params, grad, optSteps, train_loss, test_loss, writes,
                  summaries, evalPasses, aucEvals, metricCalls >>
  /\ UNCHANGED blurVars

\* lines 101-106
TrainAppend ==
  /\ pc = "append"
  /\ y_true' = y_true \o labels
  /\ y_pred' = y_pred \o Detach(outputs)
  /\ batchLog' = Append(batchLog, "append")
  /\ BatchDead
  /\ pc' = "train_head"
  /\ UNCHANGED << epochs, batch_size, nTrain, nTest, exc, training, epoch, index,
                  order, params, grad, optSteps, train_loss, test_loss, writes,
                  summaries, evalPasses, aucEvals, metricCalls >>
  /\ UNCHANGED blurVars

\* TrainAUC, leaving the batch loop before the loader is exhausted.
TrainAUC_MidEpoch ==
  /\ pc = "train_head"
  /\ index >= 1
  /\ ~AUCRaises(y_true)
  /\ aucEvals' = aucEvals + 1
  /\ summaries' = Append(summaries, [split |-> "train", epoch |-> epoch])
  /\ pc' = "save"
  /\ UNCHANGED << epochs, batch_size, nTrain, nTest, exc, training, epoch, index,
                  order, left_images, right_images, labels, left_outputs,
                  right_outputs, outputs, loss, params, grad, optSteps, y_true,
                  y_pred, train_loss, test_loss, writes, evalPasses, metricCalls,
                  batchLog >>
  /\ UNCHANGED blurVars

\* TrainAUC, also calling metric(y_true, y_pred).
TrainAUC_CallsMetric ==
  /\ pc = "train_head"
  /\ ~HasNext(index, nTrain, batch_size)
  /\ ~AUCRaises(y_true)
  /\ aucEvals' = aucEvals + 1
  /\ summaries' = Append(summaries, [split |-> "train", epoch |-> epoch])
  /\ metricCalls' = metricCalls + 1
  /\ pc' = "save"
  /\ UNCHANGED << epochs, batch_size, nTrain, nTest, exc, training, epoch, index,
                  order, left_images, right_images, labels, left_outputs,
                  right_outputs, outputs, loss, params, grad, optSteps, y_true,
                  y_pred, train_loss, test_loss, writes, evalPasses, batchLog >>
  /\ UNCHANGED blurVars

\* lines 108-110: the batch loop is over; one roc_auc_score call per class,
\* then the summary line.
TrainAUC ==
  /\ pc = "train_head"
  /\ ~HasNext(index, nTrain, batch_size)
  /\ ~AUCRaises(y_true)
  /\ aucEvals' = aucEvals + 1
  /\ summaries' = Append(summaries, [split |-> "train", epoch |-> epoch])
  /\ pc' = "save"
  /\ UNCHANGED << epochs, batch_size, nTrain, nTest, exc, training, epoch, index,
                  order, left_images, right_images, labels, left_outputs,
                  right_outputs, outputs, loss, params, grad, optSteps, y_true,
                  y_pred, train_loss, test_loss, writes, evalPasses, metricCalls,
                  batchLog >>
  /\ UNCHANGED blurVars

\* TrainAUCRaise, the exception being caught and the epoch carried on.
TrainAUCRaise_Swallowed ==
  /\ pc = "train_head"
  /\ ~HasNext(index, nTrain, batch_size)
  /\ AUCRaises(y_true)
  /\ exc' = "auc_train"
  /\ pc' = "save"
  /\ UNCHANGED << epochs, batch_size, nTrain, nTest, training, epoch, index,
                  order, left_images, right_images, labels, left_outputs,
                  right_outputs, outputs, loss, params, grad, optSteps, y_true,
                  y_pred, train_loss, test_loss, writes, summaries, evalPasses,
                  aucEvals, metricCalls, batchLog >>
  /\ UNCHANGED blurVars

\* line 108 raises: nothing catches it, main(args) is left.
TrainAUCRaise ==
  /\ pc = "train_head"
  /\ ~HasNext(index, nTrain, batch_size)
  /\ AUCRaises(y_true)
  /\ exc' = "auc_train"
  /\ pc' = "aborted"
  /\ UNCHANGED << epochs, batch_size, nTrain, nTest, training, epoch, index,
                  order, left_images, right_images, labels, left_outputs,
                  right_outputs, outputs, loss, params, grad, optSteps, y_true,
                  y_pred, train_loss, test_loss, writes, summaries, evalPasses,
                  aucEvals, metricCalls, batchLog >>
  /\ UNCHANGED blurVars

\* Save, writing a file of its own for every epoch after the first.
Save_PerEpochFile ==
  /\ pc = "save"
  /\ writes' = Append(writes, [path |-> IF epoch = 1 THEN CheckpointPath
                                        ELSE "model/checkpoint_n.pth", state_dict |-> params,
                               epoch |-> epoch, optSteps |-> optSteps,
                               training |-> training])
  /\ pc' = "epoch_head"
  /\ UNCHANGED << epochs, batch_size, nTrain, nTest, exc, training, epoch, index,
                  order, left_images, right_images, labels, left_outputs,
                  right_outputs, outputs, loss, params, grad, optSteps, y_true,
                  y_pred, train_loss, test_loss, summaries, evalPasses, aucEvals,
                  metricCalls, batchLog >>
  /\ UNCHANGED blurVars

\* line 111: torch.save(net.state_dict(), 'model/checkpoint.pth')
Save ==
  /\ pc = "save"
  /\ writes' = Append(writes, [path |-> CheckpointPath, state_dict |-> params,
                               epoch |-> epoch, optSteps |-> optSteps,
                               training |-> training])
  /\ pc' = "epoch_head"
  /\ UNCHANGED << epochs, batch_size, nTrain, nTest, exc, training, epoch, index,
                  order, left_images, right_images, labels, left_outputs,
                  right_outputs, outputs, loss, params, grad, optSteps, y_true,
                  y_pred, train_loss, test_loss, summaries, evalPasses, aucEvals,
                  metricCalls, batchLog >>
  /\ UNCHANGED blurVars

\* line 111 raises (the directory model/ is not created by the program).
SaveRaise ==
  /\ pc = "save"
  /\ exc' = "save"
  /\ pc' = "aborted"
  /\ UNCHANGED << epochs, batch_size, nTrain, nTest, training, epoch, index,
                  order, left_images, right_images, labels, left_outputs,
                  right_outputs, outputs, loss, params, grad, optSteps, y_true,
                  y_pred, train_loss, test_loss, writes, summaries, evalPasses,
                  aucEvals, metricCalls, batchLog >>
  /\ UNCHANGED blurVars

\* ---------------------------------------------------------- evaluation
\* lines 113-118: all epochs are over; eval mode, fresh accumulators, the
\* test loader iterates in order.
EvalStart ==
  /\ pc = "epoch_head"
  /\ ~(epoch < epochs)
  /\ training' = FALSE
  /\ evalPasses' = evalPasses + 1
  /\ y_true' = << >>
  /\ y_pred' = << >>
  /\ test_loss' = 0
  /\ index' = 0
  /\ \E n \in 0..MaxTest :
       /\ nTest' = n
       /\ order' = Sequential(n)
  /\ pc' = "test_head"
  /\ UNCHANGED << epochs, batch_size, nTrain, exc, epoch,
                  left_images, right_images, labels, left_outputs, right_outputs,
                  outputs, loss, params, grad, optSteps, train_loss, writes,
                  summaries, aucEvals, metricCalls, batchLog >>
  /\ UNCHANGED blurVars

\* lines 118-121
TestFetch ==
  /\ pc = "test_head"
  /\ HasNext(index, nTest, batch_size)
  /\ index' = index + 1
  /\ LET ids == BatchIds(order, index + 1, nTest, batch_size) IN
       /\ left_images' = ImageRows("test", epoch, ids, "left")
       /\ right_images' = ImageRows("test", epoch, ids, "right")
       /\ \E ys \in [1..Len(ids) -> LabelChoices] :
            labels' = LabelRows("test", epoch, ids, ys)
  /\ batchLog' = << >>
  /\ pc' = "test_forward"
  /\ UNCHANGED << epochs, batch_size, nTrain, nTest, exc, training, epoch, order,
                  left_outputs, right_outputs, outputs, loss, params, grad, optSteps,
                  y_true, y_pred, train_loss, test_loss, writes, summaries,
                  evalPasses, aucEvals, metricCalls >>
  /\ UNCHANGED blurVars

\* lines 123-125 (under torch.no_grad())
TestForward ==
  /\ pc = "test_forward"
  /\ left_outputs' = Forward(left_images, params)
  /\ right_outputs' = Forward(right_images, params)
  /\ batchLog' = batchLog \o << "forward_left", "forward_right" >>
  /\ pc' = "test_average"
  /\ UNCHANGED << epochs, batch_size, nTrain, nTest, exc, training, epoch, index,
                  order, left_images, right_images, labels, outputs, loss, params,
                  grad, optSteps, y_true, y_pred, train_loss, test_loss, writes,
                  summaries, evalPasses, aucEvals, metricCalls >>
  /\ UNCHANGED blurVars

\* line 127
TestAverage ==
  /\ pc = "test_average"
  /\ outputs' = Average(left_outputs, right_outputs)
  /\ batchLog' = Append(batchLog, "average")
  /\ pc' = "test_loss"
  /\ UNCHANGED << epochs, batch_size, nTrain, nTest, exc, training, epoch, index,
                  order, left_images, right_images, labels, left_outputs,
                  right_outputs, loss, params, grad, optSteps, y_true, y_pred,
                  train_loss, test_loss, writes, summaries, evalPasses, aucEvals,
                  metricCalls >>
  /\ UNCHANGED blurVars

\* TestLoss, followed by an optimizer step as in the training loop.
TestLoss_WithStep ==
  /\ pc = "test_loss"
  /\ loss' = 1
  /\ params' = Step(params)
  /\ test_loss' = test_loss + 1
  /\ batchLog' = Append(batchLog, "loss")
  /\ pc' = "test_append"
  /\ UNCHANGED << epochs, batch_size, nTrain, nTest, exc, training, epoch, index,
                  order, left_images, right_images, labels, left_outputs,
                  right_outputs, outputs, grad, optSteps, y_true, y_pred,
                  train_loss, writes, summaries, evalPasses, aucEvals, metricCalls >>
  /\ UNCHANGED blurVars

\* lines 129-130
TestLoss ==
  /\ pc = "test_loss"
  /\ loss' = 1
  /\ test_loss' = test_loss + 1
  /\ batchLog' = Append(batchLog, "loss")
  /\ pc' = "test_append"
  /\ UNCHANGED << epochs, batch_size, nTrain, nTest, exc, training, epoch, index,
                  order, left_images, right_images, labels, left_outputs,
                  right_outputs, outputs, params, grad, optSteps, y_true, y_pred,
                  train_loss, writes, summaries, evalPasses, aucEvals, metricCalls >>
  /\ UNCHANGED blurVars

\* lines 132-137
TestAppend ==
  /\ pc = "test_append"
  /\ y_true' = y_true \o labels
  /\ y_pred' = y_pred \o Detach(outputs)
  /\ batchLog' = Append(batchLog, "append")
  /\ BatchDead
  /\ pc' = "test_head"
  /\ UNCHANGED << epochs, batch_size, nTrain, nTest, exc, training, epoch, index,
                  order, params, grad, optSteps, train_loss, test_loss, writes,
                  summaries, evalPasses, aucEvals, metricCalls >>
  /\ UNCHANGED blurVars

\* lines 139-141: per-class AUC and the final summary line; main returns.
TestAUC ==
  /\ pc = "test_head"
  /\ ~HasNext(index, nTest, batch_size)
  /\ ~AUCRaises(y_true)
  /\ aucEvals' = aucEvals + 1
  /\ summaries' = Append(summaries, [split |-> "test", epoch |-> epoch])
  /\ pc' = "done"
  /\ UNCHANGED << epochs, batch_size, nTrain, nTest, exc, training, epoch, index,
                  order, left_images, right_images, labels, left_outputs,
                  right_outputs, outputs, loss, params, grad, optSteps, y_true,
                  y_pred, train_loss, test_loss, writes, evalPasses, metricCalls,
                  batchLog >>
  /\ UNCHANGED blurVars

\* line 139 raises.
TestAUCRaise ==
  /\ pc = "test_head"
  /\ ~HasNext(index, nTest, batch_size)
  /\ AUCRaises(y_true)
  /\ exc' = "auc_test"
  /\ pc' = "aborted"
  /\ UNCHANGED << epochs, batch_size, nTrain, nTest, training, epoch, index,
                  order, left_images, right_images, labels, left_outputs,
                  right_outputs, outputs, loss, params, grad, optSteps, y_true,
                  y_pred, train_loss, test_loss, writes, summaries, evalPasses,
                  aucEvals, metricCalls, batchLog >>
  /\ UNCHANGED blurVars

Next ==
  \/ TrainMode \/ EpochStart \/ TrainFetch \/ TrainForward \/ TrainAverage
  \/ TrainLoss \/ ZeroGrad \/ Backward \/ OptimizerStep \/ TrainAppend
  \/ TrainAUC \/ TrainAUCRaise \/ Save \/ SaveRaise
  \/ EvalStart \/ TestFetch \/ TestForward \/ TestAverage \/ TestLoss
  \/ TestAppend \/ TestAUC \/ TestAUCRaise

Spec == Init /\ [][Next]_vars

\* ------------------------------------------- RandomGaussianBlur.__call__
\* An image object: its identity, its type and its pixel data, and the blur
\* that produced it (ksize 0 for none).
Images ==
  { [obj |-> 1, kind |-> "PIL", pixels |-> p,
     blur |-> [ksize |-> << 0, 0 >>, sigma |-> 0]] : p \in [1..ImgLen -> 0..MaxPix] }

\* cv2.GaussianBlur(np.asarray(a), (23, 23), s): a new array holding the
\* pixels of a blurred with a KSize x KSize kernel of deviation s.
GaussianBlur(a, s) ==
  [obj |-> a.obj + 1, kind |-> "ndarray", pixels |-> a.pixels,
   blur |-> [ksize |-> << KSize, KSize >>, sigma |-> s]]

\* __call__(self, img) is entered with the caller's image.
BlurInit ==
  /\ epochs = 0 /\ batch_size = 1 /\ nTrain = 1 /\ MainZero
  /\ b_pc = "call"
  /\ img \in Images
  /\ arg = img
  /\ do_it = FALSE /\ r = 0 /\ sigma = 0 /\ out = NoImage

\* DrawDoIt, comparing with >= instead of >.
DrawDoIt_AtLeastHalf ==
  /\ b_pc = "call"
  /\ \E d \in 0..(RandRes - 1) :
       /\ r' = d
       /\ do_it' = (2 * d >= RandRes)
  /\ b_pc' = "branch"
  /\ UNCHANGED << img, arg, sigma, out >>
  /\ UNCHANGED mainVars

\* line 16: do_it = np.random.rand() > 0.5, the draw being r / RandRes.
DrawDoIt ==
  /\ b_pc = "call"
  /\ \E d \in 0..(RandRes - 1) :
       /\ r' = d
       /\ do_it' = (2 * d > RandRes)
  /\ b_pc' = "branch"
  /\ UNCHANGED << img, arg, sigma, out >>
  /\ UNCHANGED mainVars

\* lines 17-18
ReturnInput ==
  /\ b_pc = "branch"
  /\ ~do_it
  /\ out' = arg
  /\ b_pc' = "returned"
  /\ UNCHANGED << img, arg, do_it, r, sigma >>
  /\ UNCHANGED mainVars

\* line 19: sigma = np.random.rand() * 1.9 + 0.1, in units of 1 / (10 * RandRes).
DrawSigma ==
  /\ b_pc = "branch"
  /\ do_it
  /\ \E d \in 0..(RandRes - 1) : sigma' = 19 * d + RandRes
  /\ b_pc' = "blur"
  /\ UNCHANGED << img, arg, do_it, r, out >>
  /\ UNCHANGED mainVars

\* line 20
ReturnBlurred ==
  /\ b_pc = "blur"
  /\ out' = GaussianBlur(arg, sigma)
  /\ b_pc' = "returned"
  /\ UNCHANGED << img, arg, do_it, r, sigma >>
  /\ UNCHANGED mainVars

NextBlur == DrawDoIt \/ ReturnInput \/ DrawSigma \/ ReturnBlurred

SpecBlur == BlurInit /\ [][NextBlur]_vars

\* ================================================================ claims
NB == NumBatches(nTrain, batch_size)

TrainBatchPcs == { "forward", "average", "loss", "zero_grad", "backward", "step",
                   "append" }
TestBatchPcs  == { "test_forward", "test_average", "test_loss", "test_append" }
EvalPcs       == TestBatchPcs \cup { "test_head", "done" }

\* Batches of the current epoch / split whose rows are in the accumulators.
BatchesAppended == IF pc \in TrainBatchPcs \cup TestBatchPcs THEN index - 1 ELSE index

\* The split being iterated and its size.
CurSplit == IF evalPasses = 0 THEN "train" ELSE "test"
CurSize  == IF evalPasses = 0 THEN nTrain ELSE nTest

\* C1: a run of E epochs that raises no exception makes exactly E checkpoint
\* writes, the i-th at the end of training epoch i, all to the one path
\* model/checkpoint.pth, and none during or after the evaluation pass.
C1_CheckpointWrites ==
  /\ \A i \in 1..Len(writes) :
       /\ writes[i].path = CheckpointPath
       /\ writes[i].epoch = i
       /\ writes[i].training
  /\ pc = "epoch_head" => Len(writes) = epoch
  /\ pc \in EvalPcs => Len(writes) = epochs

C1_Witness ==
  pc = "done" /\ epochs >= 2 /\ Len(writes) = epochs

\* C2: the checkpoint write of epoch e comes after the optimizer steps of all
\* batches of epoch e and before any step of epoch e+1, and it saves the
\* parameters the last step of epoch e produced.
C2_WriteAfterFullEpoch ==
  /\ \A i \in 1..Len(writes) :
       /\ writes[i].optSteps = i * NB
       /\ writes[i].state_dict = i * NB
  /\ pc = "save" => index = NB /\ optSteps = epoch * NB /\ params = epoch * NB
  /\ pc \in TrainBatchPcs \cup { "train_head", "save" } => Len(writes) = epoch - 1

C2_Witness ==
  /\ pc = "step" /\ epoch = 2 /\ NB >= 2 /\ index = 1
  /\ Len(writes) = 1 /\ writes[1].optSteps = NB

\* C3: y_true and y_pred have equal length, row i of both belongs to the same
\* sample, and after k batches of the epoch / split their length is the sum
\* of the sizes of those batches (the last batch may be partial).
C3_AccumulatorsAligned ==
  /\ Len(y_true) = Len(y_pred)
  /\ \A i \in 1..Len(y_true) :
       /\ y_pred[i].left = y_true[i].id
       /\ y_pred[i].right = y_true[i].id
       /\ y_pred[i].split = y_true[i].split
       /\ y_pred[i].epoch = y_true[i].epoch
       /\ y_true[i].id = order[i]
  /\ Len(y_true) = Min(BatchesAppended * batch_size, CurSize)

C3_Witness ==
  /\ pc = "train_head" /\ batch_size = 2 /\ index = 2 /\ Len(y_true) = 3
  /\ y_true[1].id # 1

\* C4: accumulators and the running loss sum are empty / zero at the start
\* of every training epoch and of the test split, so they hold rows of the
\* current epoch / split only.
C4_ResetPerEpochAndSplit ==
  /\ \A i \in 1..Len(y_true) :
       y_true[i].split = CurSplit /\ y_true[i].epoch = epoch
  /\ \A i \in 1..Len(y_pred) :
       y_pred[i].split = CurSplit /\ y_pred[i].epoch = epoch
  /\ (pc \in { "train_head", "test_head" } /\ index = 0) =>
       /\ y_true = << >> /\ y_pred = << >>
       /\ (IF pc = "train_head" THEN train_loss ELSE test_loss) = 0
  /\ pc \in TrainBatchPcs \cup { "train_head", "save" } =>
       train_loss = (IF pc \in { "forward", "average", "loss" } THEN index - 1 ELSE index)
  /\ pc \in EvalPcs =>
       test_loss = (IF pc \in { "test_forward", "test_average", "test_loss" }
                    THEN index - 1 ELSE index)

C4_Witness ==
  \/ pc = "save" /\ epoch = 2 /\ Len(y_true) = nTrain /\ nTrain >= 2
  \/ pc = "done" /\ epochs >= 1 /\ Len(y_true) = nTest

\* C5: the evaluation pass runs exactly once when training is over and never
\* before: it starts only after all E epochs, iterates the test split once,
\* and changes no parameter, so throughout it the parameters are those at
\* the end of the last epoch and (E >= 1) those of the last checkpoint.
C5_EvalOnceParamsFrozen ==
  /\ evalPasses = (IF pc \in { "start", "epoch_head", "train_head", "save" }
                        \cup TrainBatchPcs
                      \/ (pc = "aborted" /\ exc # "auc_test")
                   THEN 0 ELSE 1)
  /\ evalPasses = 1 =>
       /\ ~training
       /\ epoch = epochs
       /\ params = epochs * NB /\ optSteps = epochs * NB
       /\ Len(writes) = epochs
       /\ epochs >= 1 => writes[Len(writes)].state_dict = params
       /\ \A i \in 1..Len(y_pred) :
            y_pred[i].paramsL = params /\ y_pred[i].paramsR = params
  /\ pc = "done" =>
       /\ index = NumBatches(nTest, batch_size)
       /\ Len(y_true) = nTest
       /\ \A i \in 1..nTest : y_true[i].id = i

C5_Witness ==
  pc = "done" /\ epochs = 2 /\ nTest = 2 /\ batch_size = 1 /\ params = 2 * NB

\* C6 as stated: the loop calls metric once per training epoch and once for
\* the test split, E+1 calls in a run of E epochs.
C6_MetricCalledPerPass ==
  pc = "done" => metricCalls = epochs + 1

\* C6 amended: the loop never calls metric; the per-class AUC computation
\* (roc_auc_score for each class) runs once at the end of every training
\* epoch and once for the test split, E+1 times in a run of E epochs that
\* raises no exception.
C6_AUCPerPassMetricUnused ==
  /\ metricCalls = 0
  /\ pc \in { "save", "epoch_head" } => aucEvals = epoch
  /\ pc \in TrainBatchPcs \cup { "train_head" } => aucEvals = epoch - 1
  /\ pc \in EvalPcs \ { "done" } => aucEvals = epochs
  /\ pc = "done" => aucEvals = epochs + 1
  /\ Len(summaries) = aucEvals

C6_Witness ==
  pc = "done" /\ epochs = 2 /\ aucEvals = 3

\* C7: an exception ends the run for good; when the per-class AUC of training
\* epoch e raises, epoch e writes no checkpoint, no later epoch and no
\* evaluation pass runs, and exactly e-1 checkpoint writes have occurred.
C7_AbortOnException ==
  /\ [](exc = "auc_train" =>
          /\ pc = "aborted"
          /\ epoch >= 1
          /\ Len(writes) = epoch - 1
          /\ Len(summaries) = epoch - 1
          /\ evalPasses = 0
          /\ AUCRaises(y_true))
  /\ []((pc = "aborted") <=> (exc # "none"))
  /\ [][pc # "aborted"]_vars

C7_Witness ==
  /\ exc = "auc_train" /\ epoch = 2 /\ Len(writes) = 1
  /\ y_true # << >>

C9_BlurIffDrawAboveHalf ==
  /\ img = arg
  /\ img \in Images
  /\ b_pc = "returned" =>
       /\ (2 * r <= RandRes) <=> (out = arg)
       /\ (2 * r > RandRes) <=>
            /\ out.obj # arg.obj
            /\ out.pixels = arg.pixels
            /\ out.blur.ksize = << 23, 23 >>
            /\ RandRes <= out.blur.sigma /\ out.blur.sigma < 20 * RandRes

C9_Witness ==
  b_pc = "returned" /\ 2 * r = RandRes /\ out = arg

\* C10: in every training batch the steps run in the order forward (left,
\* right), average, loss, zero_grad, backward, optimizer step, append; so
\* the appended predictions were computed with the parameters before that
\* batch's step, and each batch makes exactly one optimizer step.
TrainOrder == << "forward_left", "forward_right", "average", "loss", "zero_grad",
                 "backward", "step", "append" >>

LogLen ==
  CASE pc = "forward"   -> 0
    [] pc = "average"   -> 2
    [] pc = "loss"      -> 3
    [] pc = "zero_grad" -> 4
    [] pc = "backward"  -> 5
    [] pc = "step"      -> 6
    [] pc = "append"    -> 7
    [] OTHER            -> 8

C10_BatchStepOrder ==
  (evalPasses = 0 /\ epoch >= 1 /\ pc # "aborted") =>
     /\ index >= 1 => batchLog = SubSeq(TrainOrder, 1, LogLen)
     /\ pc = "step" => grad = { params }
     /\ optSteps = (epoch - 1) * NB
                   + (IF pc \in TrainBatchPcs \ { "append" } THEN index - 1 ELSE index)
     /\ \A i \in 1..Len(y_pred) :
          /\ y_pred[i].paramsL = (epoch - 1) * NB + ((i - 1) \div batch_size)
          /\ y_pred[i].paramsR = y_pred[i].paramsL

C10_Witness ==
  /\ pc = "train_head" /\ epoch = 2 /\ index = 2 /\ batch_size = 2
  /\ y_pred[3].paramsL = NB + 1 /\ params = NB + 2

====
